---- MODULE Spec2Model ----
(***************************************************************************)
(* Streaming-session lifecycle of the Bodhi client:                        *)
(*   bodhi/transcription_handler.py  TranscriptionHandler                  *)
(*   bodhi/audio_processor.py        AudioProcessor                        *)
(* The caller coroutines, the sender task (process_file) and the receiver  *)
(* tasks run on one asyncio event loop: every action below is the code     *)
(* between two suspension points of one coroutine.                         *)
(***************************************************************************)
EXTENDS Integers, Sequences, FiniteSets

\* ---------------------------------------------------------------- bounds
MaxSessions == 1   \* start_streaming_session calls modelled
MaxCalls    == 4   \* calls of start_streaming_session, stream_audio and
                   \* finish_streaming modelled, all together
MaxFrames   == 3   \* largest number of sample-frames in the wave file
MaxBuf      == 2   \* largest buffer_size (frames per chunk) modelled

\* ------------------------------------------------------------ connections
None     == 0                    \* Python None (self.ws, self.recv_task)
PushConn == 1..MaxSessions       \* the k-th connect() of start_streaming_session
FileConn == MaxSessions + 1      \* the connect() of _handle_audio_source
ConnIds  == 1..FileConn

\* sample rates of the wave header; buffer_size is derived from them
Rates   == {r \in 10..(10 * MaxBuf) : r % 5 = 0}
\* what process_transcription_stream can return (complete sentences)
Results == {<< >>, <<"s1">>}

Msg(kind, off, len) == [kind |-> kind, off |-> off, len |-> len]
ConfigMsg == Msg("config", 0, 0)
EofMsg    == Msg("eof", 0, 0)       \* '{"eof": 1}'
PushMsg   == Msg("push", 0, 0)      \* the bytes of one stream_audio call
AudioMsg(off, len) == Msg("audio", off, len)   \* frames off+1 .. off+len of the file

VARIABLES
  conn,       \* Connection state: "unopened", "open" or "closed" (ws.closed)
  out,        \* per Connection: the messages sent on it, in order
  recv,       \* per Connection: the receiver task created for it
  sendOnClosed, \* history: ws.send was called while ws.closed was true
  \* ---- _handle_audio_source (file / URL transcription)
  pcFile,     \* "idle", "callback" (in on_error), "connect", "config",
              \* "configured", "await", "exit"
  wf,         \* the wave file: rate, nframes, pos (read position)
  sendSt,     \* send_task: "none","running","done","failed","cancelled"
  sendWhy,    \* why send_task failed: "none","error","closed"
  snd,        \* where send_task is suspended, and the message of its ws.send
  firstEnd,   \* history: which of the two tasks ended first
  fileOut,    \* how the call ended: "none", "returned", "Cancelled" or the
              \* error class raised to the caller
  fileRes,    \* the returned sentence list
  fileMark,   \* history: Len(out[FileConn]) when the call exited
  src,        \* the source of the call and what resolving it did
  \* ---- push-based session
  ws,         \* self.ws
  recv_task,  \* self.recv_task
  pcStart,    \* start_streaming_session: "idle","connect","config","configured"
  nstart,     \* number of start_streaming_session calls made
  startOut,   \* how the last start_streaming_session ended
  pcFinish,   \* finish_streaming: "idle","send","eof","await","closing"
  finTask,    \* the task finish_streaming gathers
  finOut,     \* the last finish_streaming call and how it ended
  finPrior,   \* history: a finish_streaming exited since self.ws was last set
  ncalls,     \* number of calls made of start_streaming_session,
              \* stream_audio and finish_streaming
  pcPush,     \* stream_audio: "idle", "send" (in ws.send), "sent" (written)
  pushOut     \* the last stream_audio call and how it ended

connVars == <<conn, out, recv, sendOnClosed>>
fileVars == <<pcFile, wf, sendSt, sendWhy, snd, firstEnd, fileOut, fileRes,
              fileMark, src>>
pushVars == <<ws, recv_task, pcStart, nstart, startOut, pcFinish, finTask,
              finOut, finPrior, ncalls, pcPush, pushOut>>
vars == <<connVars, fileVars, pushVars>>

\* ------------------------------------------------------------- Connection
\* ws.closed
Closed(c) == conn[c] # "open"

\* await ws.send(data): the ways one call can end.  A send on a closed
\* Connection raises; a send on an open one goes out or raises (I/O error).
SendOutcomes(c) == IF Closed(c) THEN {"closed"} ELSE {"ok", "error"}

\* the outbound side after ws.send(m) ended with outcome o
Sent(c, m, o) == IF o = "ok" THEN [out EXCEPT ![c] = Append(@, m)] ELSE out

\* the peer (or the transport) closes a Connection
PeerClose(c) ==
  /\ conn[c] = "open"
  /\ conn' = [conn EXCEPT ![c] = "closed"]
  /\ UNCHANGED <<out, recv, sendOnClosed, fileVars, pushVars>>

\* --------------------------------------------------------------- receiver
NoTask == [st |-> "none", res |-> << >>, arg |-> None]
NewTask(c) == [st |-> "running", res |-> << >>, arg |-> c]

\* history: the first of send_task / recv_task of the file call to end
EndsFirst(who) == IF firstEnd = "none" THEN who ELSE firstEnd
FirstEndAfterRecv(c) == IF c = FileConn THEN EndsFirst("recv") ELSE firstEnd

\* process_transcription_stream(ws) returns its list of complete sentences
RecvDone(c, r) ==
  /\ recv[c].st = "running"
  /\ recv[c].arg = c
  /\ recv' = [recv EXCEPT ![c] = [@ EXCEPT !.st = "done", !.res = r]]
  /\ firstEnd' = FirstEndAfterRecv(c)
  /\ UNCHANGED <<conn, out, sendOnClosed, pcFile, wf, sendSt, sendWhy, snd,
                 fileOut, fileRes, fileMark, src, pushVars>>

\* process_transcription_stream raises
RecvFail(c) ==
  /\ recv[c].st = "running"
  /\ recv' = [recv EXCEPT ![c] = [@ EXCEPT !.st = "failed"]]
  /\ firstEnd' = FirstEndAfterRecv(c)
  /\ UNCHANGED <<conn, out, sendOnClosed, pcFile, wf, sendSt, sendWhy, snd,
                 fileOut, fileRes, fileMark, src, pushVars>>

\* ------------------------------------------------- AudioProcessor.process_file
\* mutant: chunks of 200 ms
BufferSizeFifth(rate) == rate \div 5

\* buffer_size = int(sample_rate * 0.1)
BufferSize(rate) == rate \div 10

\* mutant: a reader that drops a last chunk shorter than buffer_size
ReadFramesShort(pos, nframes, size) ==
  IF nframes - pos < size THEN 0 ELSE size

\* len(wf.readframes(buffer_size)) in frames: what is left, at most buffer_size
ReadFrames(pos, nframes, size) ==
  IF nframes - pos < size THEN nframes - pos ELSE size

\* mutant: process_file without its "if not ws.closed:" guards
AlwaysSend(c) == c = c

\* "if not ws.closed:" before each ws.send of process_file
SenderMaySend(c) == ~Closed(c)

\* the sender at the top of its loop, nothing in flight
AtRead == [at |-> "read", msg |-> Msg("none", 0, 0)]
\* the sender inside "await ws.send(m)", m not written yet
InSend(m) == [at |-> "send", msg |-> m]
\* the sender suspended after the write of a message of this kind (still in
\* ws.send, or in asyncio.sleep), or in asyncio.sleep after a skipped send
Paused(kind) == [at |-> "pause", msg |-> Msg(kind, 0, 0)]

\* mutant: a loop that returns as soon as the Connection reports closed
SenderChunkUntilClosed(take) ==
  IF SenderMaySend(FileConn)
    THEN /\ wf' = [wf EXCEPT !.pos = @ + take]
         /\ snd' = InSend(AudioMsg(wf.pos, take))
         /\ sendOnClosed' = (sendOnClosed \/ Closed(FileConn))
         /\ UNCHANGED <<out, sendSt, sendWhy, firstEnd>>
    ELSE /\ sendSt' = "done"
         /\ firstEnd' = EndsFirst("send")
         /\ UNCHANGED <<wf, snd, out, sendOnClosed, sendWhy>>

\* one turn of the while loop up to its await: readframes, then the guarded
\* call of ws.send (line 31), or the sleep of line 33 when the send is skipped
SenderChunk(take) ==
  /\ wf' = [wf EXCEPT !.pos = @ + take]
  /\ IF SenderMaySend(FileConn)
       THEN /\ snd' = InSend(AudioMsg(wf.pos, take))
            /\ sendOnClosed' = (sendOnClosed \/ Closed(FileConn))
       ELSE /\ snd' = Paused("audio")
            /\ UNCHANGED sendOnClosed
  /\ UNCHANGED <<out, sendSt, sendWhy, firstEnd>>

\* readframes returned nothing: leave the loop, then the guarded call of
\* ws.send (line 36), or the return when the send is skipped
SenderEof ==
  /\ IF SenderMaySend(FileConn)
       THEN /\ snd' = InSend(EofMsg)
            /\ sendOnClosed' = (sendOnClosed \/ Closed(FileConn))
            /\ UNCHANGED <<sendSt, firstEnd>>
       ELSE /\ sendSt' = "done"
            /\ firstEnd' = EndsFirst("send")
            /\ UNCHANGED <<snd, sendOnClosed>>
  /\ UNCHANGED <<wf, out, sendWhy>>

\* the pending ws.send writes its message, or raises (lines 38-40 re-raise)
SenderWrite ==
  /\ \E o \in SendOutcomes(FileConn) :
       /\ out' = Sent(FileConn, snd.msg, o)
       /\ IF o = "ok"
            THEN /\ snd' = Paused(snd.msg.kind)
                 /\ UNCHANGED <<sendSt, sendWhy, firstEnd>>
            ELSE /\ sendSt' = "failed"
                 /\ sendWhy' = o
                 /\ firstEnd' = EndsFirst("send")
                 /\ snd' = AtRead
  /\ UNCHANGED <<wf, sendOnClosed>>

\* the sender resumes from ws.send / asyncio.sleep: the next turn of the
\* loop, or the return of process_file after the marker
SenderResume ==
  /\ snd' = AtRead
  /\ IF snd.msg.kind = "eof"
       THEN sendSt' = "done" /\ firstEnd' = EndsFirst("send")
       ELSE UNCHANGED <<sendSt, firstEnd>>
  /\ UNCHANGED <<wf, out, sendOnClosed, sendWhy>>

\* one step of send_task between two suspension points
SenderStep ==
  /\ sendSt = "running"
  /\ CASE snd.at = "read" ->
            LET take == ReadFrames(wf.pos, wf.nframes, BufferSize(wf.rate))
            IN  IF take = 0 THEN SenderEof ELSE SenderChunk(take)
       [] snd.at = "send" -> SenderWrite
       [] snd.at = "pause" -> SenderResume
  /\ UNCHANGED <<conn, recv, pcFile, fileOut, fileRes, fileMark, src, pushVars>>

\* ------------------------------------ TranscriptionHandler._handle_audio_source
\* the on_error argument: none; a coroutine function that returns without
\* suspending ("async"); one that awaits something and then returns
\* ("suspends"); a plain function, whose None "await on_error(e)" cannot
\* await ("plain"); a coroutine function that raises without suspending
\* ("raises"); one that awaits something and then raises ("suspendsRaises")
Callbacks == {"none", "async", "suspends", "plain", "raises", "suspendsRaises"}

\* on_error(e) suspends before it ends
Suspends(cb) == cb \in {"suspends", "suspendsRaises"}

\* the exception "await on_error(e)" ends with, if any
CallbackError(cb) ==
  IF cb = "plain" THEN "TypeError"
  ELSE IF cb \in {"raises", "suspendsRaises"} THEN "CallbackError"
  ELSE "none"

\* what the caller passes and what resolving it meets: a URL or a local path,
\* the URL's scheme, the download, the local path (it exists; open() reads
\* it), the first 4 bytes, the rest of the file (wave.open accepts it), the
\* config object, and the on_error callback.  The temporary file of a URL
\* exists and is readable; a local path has no scheme and no download
Sources ==
  [url : {TRUE}, scheme : BOOLEAN, download : {"error", "empty", "data"},
   exists : {TRUE}, readable : {TRUE}, riff : BOOLEAN, wave : BOOLEAN,
   cfgOk : BOOLEAN, cb : Callbacks]
  \cup
  [url : {FALSE}, scheme : {FALSE}, download : {"data"},
   exists : BOOLEAN, readable : BOOLEAN, riff : BOOLEAN, wave : BOOLEAN,
   cfgOk : BOOLEAN, cb : Callbacks]

\* the first error raised by lines 245-300, in the order of the code
ResolveError(s) ==
  IF s.url /\ ~s.scheme THEN "InvalidURLError"
  ELSE IF s.url /\ s.download = "error" THEN "RequestException"
  ELSE IF s.url /\ s.download = "empty" THEN "EmptyAudioError"
  ELSE IF ~s.url /\ ~s.exists THEN "FileNotFoundError"
  ELSE IF ~s.url /\ ~s.readable THEN "OSError"
  ELSE IF ~s.riff THEN "InvalidAudioFormatError"
  ELSE IF ~s.wave THEN "WaveError"
  ELSE IF ~s.cfgOk THEN "ConfigurationError"
  ELSE "none"

\* the source after lines 245-300, before any on_error call: the error met,
\* requests.get calls made, on_error calls made, the temporary file of line
\* 252, and the error a suspended on_error call will be followed by
Resolved(s) ==
  [url   |-> s.url,
   cb    |-> s.cb,
   err   |-> ResolveError(s),
   reqs  |-> IF s.url /\ s.scheme THEN 1 ELSE 0,
   calls |-> 0,
   temp  |-> IF s.url /\ s.scheme THEN "open" ELSE "none",
   pend  |-> "none"]

\* the except clauses of lines 328-339: the error the caller gets
Wrap(e) == IF e = "RequestException" THEN "AudioDownloadError" ELSE "StreamingError"

\* the finally clause of lines 340-342 closes temp_audio
Leave(s) == [s EXCEPT !.temp = IF @ = "open" THEN "closed" ELSE @,
                      !.pend = "none"]

\* the call leaves _handle_audio_source, returning or raising
FileExit(s, how, res) ==
  /\ pcFile' = "exit"
  /\ fileOut' = how
  /\ fileRes' = res
  /\ fileMark' = Len(out[FileConn])
  /\ src' = Leave(s)

\* the call suspends inside "await on_error(..)"; the error e follows
InCallback(s, e) ==
  /\ pcFile' = "callback"
  /\ src' = [s EXCEPT !.pend = e]
  /\ UNCHANGED <<fileOut, fileRes, fileMark>>

\* error e is raised inside the try block: the except clause of line 328 or
\* 334 awaits on_error (a callback that cannot be awaited or that raises ends
\* the call with its own error) and raises the wrapped error
FileRaise(s, e) ==
  IF s.cb = "none" THEN FileExit(s, Wrap(e), << >>)
  ELSE LET t == [s EXCEPT !.calls = @ + 1]
       IN  IF Suspends(s.cb) THEN InCallback(t, Wrap(e))
           ELSE IF CallbackError(s.cb) = "none" THEN FileExit(t, Wrap(e), << >>)
           ELSE FileExit(t, CallbackError(s.cb), << >>)

\* lines 286-291: the header is not b"RIFF"; on_error is awaited, then
\* InvalidAudioFormatError is raised (or what the await of on_error raised)
FormatError(s) ==
  IF s.cb = "none" THEN FileRaise(s, "InvalidAudioFormatError")
  ELSE LET t == [s EXCEPT !.calls = @ + 1]
       IN  IF Suspends(s.cb) THEN InCallback(t, "InvalidAudioFormatError")
           ELSE IF CallbackError(s.cb) = "none"
             THEN FileRaise(t, "InvalidAudioFormatError")
             ELSE FileRaise(t, CallbackError(s.cb))

\* mutant: a call that goes on to connect() after an invalid config
AfterResolveLate(e) ==
  IF e \in {"none", "ConfigurationError"} THEN "connect" ELSE "exit"

\* where the call stands after lines 245-300
AfterResolve(e) == IF e = "none" THEN "connect" ELSE "exit"

\* no file / URL transcription has been called on the handler
FileUnused == pcFile = "idle"

\* the call, up to its first suspension: "await on_error(..)" or
\* "ws = await self.websocket_handler.connect()"; the wave file is open once
\* wave.open (line 293) has returned
FileCall(s, rate, n) ==
  /\ pcFile = "idle"
  /\ LET r == Resolved(s)
     IN  /\ wf' = IF r.err \in {"none", "ConfigurationError"}
                    THEN [rate |-> rate, nframes |-> n, pos |-> 0] ELSE wf
         /\ IF AfterResolve(r.err) = "connect"
              THEN /\ pcFile' = "connect"
                   /\ src' = r
                   /\ UNCHANGED <<fileOut, fileRes, fileMark>>
              ELSE IF r.err = "InvalidAudioFormatError"
                THEN FormatError(r)
                ELSE FileRaise(r, r.err)
  /\ UNCHANGED <<connVars, sendSt, sendWhy, snd, firstEnd, pushVars>>

\* the suspended on_error ends.  At line 290: it returned and line 291 raises
\* InvalidAudioFormatError, or it raised; either error enters the except
\* clause of line 334.  At line 332 / 338: it returned and line 333 / 339
\* raises the wrapped error to the caller, or it raised and its own error
\* leaves the call
FileCallback ==
  /\ pcFile = "callback"
  /\ IF src.pend = "InvalidAudioFormatError"
       THEN FileRaise([src EXCEPT !.pend = "none"],
                      IF CallbackError(src.cb) = "none"
                        THEN "InvalidAudioFormatError"
                        ELSE CallbackError(src.cb))
       ELSE FileExit(src, IF CallbackError(src.cb) = "none"
                            THEN src.pend
                            ELSE CallbackError(src.cb), << >>)
  /\ UNCHANGED <<connVars, wf, sendSt, sendWhy, snd, firstEnd, pushVars>>

\* mutant: a call that keeps its Connection in self.ws
FileConnectOnSelf(ok) ==
  /\ pcFile = "connect"
  /\ IF ok
       THEN /\ conn' = [conn EXCEPT ![FileConn] = "open"]
            /\ ws' = FileConn
            /\ pcFile' = "config"
            /\ UNCHANGED <<fileOut, fileRes, fileMark, src>>
       ELSE /\ FileRaise(src, "ConnectError")
            /\ UNCHANGED <<conn, ws>>
  /\ UNCHANGED <<out, recv, sendOnClosed, wf, sendSt, sendWhy, snd, firstEnd, recv_task,
                 pcStart, nstart, startOut, pcFinish, finTask, finOut, finPrior,
                 ncalls, pcPush, pushOut>>

\* connect() returns the Connection or raises
FileConnect(ok) ==
  /\ pcFile = "connect"
  /\ IF ok
       THEN /\ conn' = [conn EXCEPT ![FileConn] = "open"]
            /\ pcFile' = "config"
            /\ UNCHANGED <<fileOut, fileRes, fileMark, src>>
       ELSE /\ FileRaise(src, "ConnectError")
            /\ UNCHANGED conn
  /\ UNCHANGED <<out, recv, sendOnClosed, wf, sendSt, sendWhy, snd, firstEnd,
                 pushVars>>

\* the pending send of send_config writes the config, or raises
FileConfig ==
  /\ pcFile = "config"
  /\ \E o \in SendOutcomes(FileConn) :
       /\ out' = Sent(FileConn, ConfigMsg, o)
       /\ IF o = "ok"
            THEN /\ pcFile' = "configured"
                 /\ UNCHANGED <<fileOut, fileRes, fileMark, src>>
            ELSE FileRaise(src, "SendError")
  /\ UNCHANGED <<conn, recv, sendOnClosed, wf, sendSt, sendWhy, snd, firstEnd,
                 pushVars>>

\* send_config returned: lines 305-319 create the two tasks and await their
\* gather
FileTasks ==
  /\ pcFile = "configured"
  /\ sendSt' = "running"
  /\ recv' = [recv EXCEPT ![FileConn] = NewTask(FileConn)]
  /\ pcFile' = "await"
  /\ UNCHANGED <<conn, out, sendOnClosed, wf, sendWhy, snd, firstEnd, fileOut,
                 fileRes, fileMark, src, pushVars>>

\* asyncio.gather(send_task, recv_task): "raise" as soon as one task has
\* raised, "return" once both have returned, "pending" otherwise
GatherOutcome(s, r) ==
  IF s = "failed" \/ r = "failed" THEN "raise"
  ELSE IF s = "done" /\ r = "done" THEN "return"
  ELSE "pending"

\* the caller resumes from "await asyncio.gather(send_task, recv_task)"
FileGather ==
  /\ pcFile = "await"
  /\ LET g == GatherOutcome(sendSt, recv[FileConn].st)
     IN  /\ g # "pending"
         /\ IF g = "return"
              THEN FileExit(src, "returned", recv[FileConn].res)
              ELSE FileRaise(src, "TaskError")
  /\ UNCHANGED <<connVars, wf, sendSt, sendWhy, snd, firstEnd, pushVars>>

\* a task that gather cancels: a running one ends cancelled
CancelTask(st) == IF st = "running" THEN "cancelled" ELSE st

\* what the caller gets when it is cancelled while the gather future is still
\* pending: gather.cancel() cancels the running tasks; if one task has already
\* raised, its done-callback then gives the gather that exception, which
\* lines 334-339 raise as StreamingError; if no task was running the
\* cancellation is thrown into the caller
CancelPending(g, inflight) ==
  IF g = "raise" /\ inflight THEN "StreamingError" ELSE "Cancelled"

\* the caller is cancelled at one of its awaits.  At the gather: either its
\* future is still pending (the done-callbacks of ended tasks have not run),
\* or it already holds its outcome and the caller has not resumed yet; then
\* the cancellation is thrown into the caller and the tasks are left alone.
\* CancelledError is not an Exception, so lines 328-339 do not catch it
FileCancel ==
  /\ pcFile \in {"callback", "connect", "config", "configured", "await"}
  /\ IF pcFile # "await"
       THEN /\ FileExit(src, "Cancelled", << >>)
            /\ UNCHANGED <<sendSt, recv>>
       ELSE LET g == GatherOutcome(sendSt, recv[FileConn].st)
                inflight == sendSt = "running" \/ recv[FileConn].st = "running"
            IN  \/ /\ IF CancelPending(g, inflight) = "Cancelled"
                        THEN FileExit(src, "Cancelled", << >>)
                        ELSE FileRaise(src, "TaskError")
                   /\ sendSt' = CancelTask(sendSt)
                   /\ recv' = [recv EXCEPT ![FileConn] = [@ EXCEPT !.st = CancelTask(@)]]
                \/ /\ g # "pending"
                   /\ FileExit(src, "Cancelled", << >>)
                   /\ UNCHANGED <<sendSt, recv>>
  /\ UNCHANGED <<conn, out, sendOnClosed, wf, sendWhy, snd, firstEnd, pushVars>>

FileNext ==
  \/ FileUnused /\ \E s \in Sources, rate \in Rates, n \in 0..MaxFrames :
                     FileCall(s, rate, n)
  \/ FileCallback
  \/ \E ok \in BOOLEAN : FileConnect(ok)
  \/ FileConfig
  \/ FileTasks
  \/ SenderStep
  \/ FileGather
  \/ FileCancel
  \/ \E r \in Results : RecvDone(FileConn, r)
  \/ RecvFail(FileConn)
  \/ PeerClose(FileConn)

\* ----------------------------- TranscriptionHandler.start_streaming_session
\* the call: _prepare_config, up to "await self.websocket_handler.connect()";
\* a ConfigurationError is caught by line 96 and raised as ConnectionError
StartCall(cfgOk) ==
  /\ pcStart = "idle"
  /\ nstart < MaxSessions
  /\ ncalls < MaxCalls
  /\ nstart' = nstart + 1
  /\ ncalls' = ncalls + 1
  /\ pcStart' = IF cfgOk THEN "connect" ELSE "idle"
  /\ startOut' = IF cfgOk THEN "pending" ELSE "ConnectionError"
  /\ UNCHANGED <<connVars, fileVars, ws, recv_task, pcFinish, finTask, finOut,
                 finPrior, pcPush, pushOut>>

\* connect() returns and self.ws is assigned, or connect() raises
StartConnect(ok) ==
  /\ pcStart = "connect"
  /\ IF ok
       THEN /\ conn' = [conn EXCEPT ![nstart] = "open"]
            /\ ws' = nstart
            /\ finPrior' = FALSE
            /\ pcStart' = "config"
            /\ UNCHANGED startOut
       ELSE /\ pcStart' = "idle"
            /\ startOut' = "ConnectionError"
            /\ UNCHANGED <<conn, ws, finPrior>>
  /\ UNCHANGED <<out, recv, sendOnClosed, fileVars, recv_task, nstart, pcFinish,
                 finTask, finOut, ncalls, pcPush, pushOut>>

\* the except clause of start_streaming_session (lines 96-99)
StartFailed ==
  /\ pcStart' = "idle"
  /\ startOut' = "ConnectionError"
  /\ UNCHANGED <<ws, recv_task, recv>>

\* the pending send of send_config writes the config, or raises
StartConfig ==
  /\ pcStart = "config"
  /\ \E o \in SendOutcomes(nstart) :
       /\ out' = Sent(nstart, ConfigMsg, o)
       /\ IF o = "ok"
            THEN /\ pcStart' = "configured"
                 /\ UNCHANGED <<startOut, ws, recv_task, recv>>
            ELSE StartFailed
  /\ UNCHANGED <<conn, sendOnClosed, fileVars, nstart, pcFinish, finTask, finOut,
                 finPrior, ncalls, pcPush, pushOut>>

\* send_config returned: create_task(process_transcription_stream(self.ws))
\* with what self.ws holds by then, and the return
StartTasks ==
  /\ pcStart = "configured"
  /\ recv' = [recv EXCEPT ![nstart] = NewTask(ws)]
  /\ recv_task' = nstart
  /\ pcStart' = "idle"
  /\ startOut' = "returned"
  /\ UNCHANGED <<conn, out, sendOnClosed, fileVars, ws, nstart, pcFinish, finTask,
                 finOut, finPrior, ncalls, pcPush, pushOut>>

\* the caller of start_streaming_session is cancelled at connect() or at
\* send_config: CancelledError passes the except clause of line 96; self.ws
\* keeps what line 85 assigned
StartCancel ==
  /\ pcStart \in {"connect", "config", "configured"}
  /\ pcStart' = "idle"
  /\ startOut' = "Cancelled"
  /\ UNCHANGED <<connVars, fileVars, ws, recv_task, nstart, pcFinish, finTask,
                 finOut, finPrior, ncalls, pcPush, pushOut>>

\* ---------------------------------------- TranscriptionHandler.stream_audio
\* mutant: stream_audio checking only that self.ws is set
WsSet == ws # None

\* "if not self.ws or self.ws.closed: raise StreamingError" negated
PushUsable == ws # None /\ ~Closed(ws)

\* "if not ws.closed:" of AudioProcessor.process_stream
RelayMaySend(c) == ~Closed(c)

\* a stream_audio call up to its await: nothing suspends between the check
\* of line 110 and the call of ws.send in process_stream (line 53)
StreamAudio ==
  /\ pcPush = "idle"
  /\ ncalls < MaxCalls
  /\ ncalls' = ncalls + 1
  /\ LET call == [started |-> nstart > 0, hadWs |-> ws # None,
                  closed |-> (ws # None /\ Closed(ws)), prior |-> finPrior]
     IN  IF ~PushUsable
           THEN /\ pushOut' = [how |-> "StreamingError", sent |-> 0, err |-> FALSE,
                               conn |-> ws, call |-> call]
                /\ UNCHANGED <<pcPush, sendOnClosed>>
           ELSE IF RelayMaySend(ws)
             THEN /\ pushOut' = [how |-> "pending", sent |-> 0, err |-> FALSE,
                                 conn |-> ws, call |-> call]
                  /\ pcPush' = "send"
                  /\ sendOnClosed' = (sendOnClosed \/ Closed(ws))
             ELSE /\ pushOut' = [how |-> "returned", sent |-> 0, err |-> FALSE,
                                 conn |-> ws, call |-> call]
                  /\ UNCHANGED <<pcPush, sendOnClosed>>
  /\ UNCHANGED <<conn, out, recv, fileVars, ws, recv_task, pcStart, nstart, startOut,
                 pcFinish, finTask, finOut, finPrior>>

\* the pending ws.send of process_stream writes the data, or raises and
\* lines 120-123 raise StreamingError
StreamWrite ==
  /\ pcPush = "send"
  /\ \E o \in SendOutcomes(pushOut.conn) :
       /\ out' = Sent(pushOut.conn, PushMsg, o)
       /\ IF o = "ok"
            THEN /\ pcPush' = "sent"
                 /\ pushOut' = [pushOut EXCEPT !.sent = 1]
            ELSE /\ pcPush' = "idle"
                 /\ pushOut' = [pushOut EXCEPT !.how = "StreamingError", !.err = TRUE]
  /\ UNCHANGED <<conn, recv, sendOnClosed, fileVars, ws, recv_task, pcStart, nstart,
                 startOut, pcFinish, finTask, finOut, finPrior, ncalls>>

\* ws.send returned: process_stream and stream_audio return
StreamReturn ==
  /\ pcPush = "sent"
  /\ pcPush' = "idle"
  /\ pushOut' = [pushOut EXCEPT !.how = "returned"]
  /\ UNCHANGED <<connVars, fileVars, ws, recv_task, pcStart, nstart, startOut,
                 pcFinish, finTask, finOut, finPrior, ncalls>>

\* the caller of stream_audio is cancelled while suspended in ws.send
StreamCancel ==
  /\ pcPush \in {"send", "sent"}
  /\ pcPush' = "idle"
  /\ pushOut' = [pushOut EXCEPT !.how = "Cancelled"]
  /\ UNCHANGED <<connVars, fileVars, ws, recv_task, pcStart, nstart, startOut,
                 pcFinish, finTask, finOut, finPrior, ncalls>>

\* ------------------------------------ TranscriptionHandler.finish_streaming
\* audio chunks and end-of-stream markers sent on a Connection so far
DataSent(c) == Len(SelectSeq(out[c], LAMBDA m : m.kind # "config"))

\* mutant: finish_streaming without its finally clause
KeepWs == ws

\* "finally: self.ws = None"
FinallyWs == None

\* mutant: self.ws cleared on the return paths only, not when raising
FinishExitOnReturn(how, res) ==
  /\ pcFinish' = "idle"
  /\ finOut' = [finOut EXCEPT !.how = how, !.res = res, !.at = pcFinish,
                              !.mark = IF finOut.conn = None THEN 0 ELSE DataSent(finOut.conn)]
  /\ ws' = IF how = "returned" THEN FinallyWs ELSE ws
  /\ finPrior' = TRUE

\* leaving the try block of lines 139-158: return or raise, then the finally
FinishExit(how, res) ==
  /\ pcFinish' = "idle"
  /\ finOut' = [finOut EXCEPT !.how = how, !.res = res,
                              !.at = pcFinish,
                              !.mark = IF finOut.conn = None THEN 0 ELSE DataSent(finOut.conn)]
  /\ ws' = FinallyWs
  /\ finPrior' = TRUE

\* mutant: a closed Connection answered with what the receiver aggregated
ClosedResultFromTask == IF recv_task = None THEN << >> ELSE recv[recv_task].res

\* "return []" of line 152, taken when self.ws.closed
ClosedResult == << >>

\* the call, up to "await self.ws.send('{"eof": 1}')": the checks of lines
\* 134 and 140, then the call of ws.send on what self.ws holds
FinishCall ==
  /\ pcFinish = "idle"
  /\ ncalls < MaxCalls
  /\ ncalls' = ncalls + 1
  /\ LET call == [how |-> "pending", res |-> << >>, conn |-> ws,
                  closed |-> (ws # None /\ Closed(ws)), prior |-> finPrior,
                  prev |-> finOut.how, at |-> "call", mark |-> 0]
     IN  IF ws = None
           THEN /\ finOut' = [call EXCEPT !.how = "ConnectionError"]
                /\ UNCHANGED <<ws, finPrior, pcFinish>>
           ELSE IF Closed(ws)
             THEN /\ pcFinish' = "idle"
                  /\ finOut' = [call EXCEPT !.how = "returned", !.res = ClosedResult]
                  /\ ws' = FinallyWs
                  /\ finPrior' = TRUE
             ELSE /\ pcFinish' = "send"
                  /\ finOut' = call
                  /\ UNCHANGED <<ws, finPrior>>
  /\ UNCHANGED <<connVars, fileVars, recv_task, pcStart, nstart, startOut, finTask,
                 pcPush, pushOut>>

\* the pending ws.send writes the end-of-stream marker, or raises and line
\* 153 raises ConnectionError
FinishWrite ==
  /\ pcFinish = "send"
  /\ \E o \in SendOutcomes(finOut.conn) :
       /\ out' = Sent(finOut.conn, EofMsg, o)
       /\ IF o = "ok"
            THEN /\ pcFinish' = "eof"
                 /\ UNCHANGED <<finOut, ws, finPrior>>
            ELSE FinishExit("ConnectionError", << >>)
  /\ UNCHANGED <<conn, recv, sendOnClosed, fileVars, recv_task, pcStart, nstart,
                 startOut, finTask, ncalls, pcPush, pushOut>>

\* the send returned: asyncio.gather(self.recv_task); gather(None) raises TypeError
FinishGather ==
  /\ pcFinish = "eof"
  /\ IF recv_task = None
       THEN /\ FinishExit("ConnectionError", << >>)
            /\ UNCHANGED finTask
       ELSE /\ finTask' = recv_task
            /\ pcFinish' = "await"
            /\ UNCHANGED <<finOut, ws, finPrior>>
  /\ UNCHANGED <<connVars, fileVars, recv_task, pcStart, nstart, startOut,
                 ncalls, pcPush, pushOut>>

\* gather resumes: the task raised, or it returned and self.ws.close() is called
FinishResume ==
  /\ pcFinish = "await"
  /\ recv[finTask].st \in {"done", "failed"}
  /\ IF recv[finTask].st = "done" /\ ws # None
       THEN /\ conn' = [conn EXCEPT ![ws] = "closed"]
            /\ pcFinish' = "closing"
            /\ UNCHANGED <<finOut, ws, finPrior>>
       ELSE /\ FinishExit("ConnectionError", << >>)
            /\ UNCHANGED conn
  /\ UNCHANGED <<out, recv, sendOnClosed, fileVars, recv_task, pcStart, nstart,
                 startOut, finTask, ncalls, pcPush, pushOut>>

\* close() returned: "return result[0]"; or close() raised and line 153
\* raises ConnectionError
FinishReturn ==
  /\ pcFinish = "closing"
  /\ \E ok \in BOOLEAN :
       IF ok THEN FinishExit("returned", recv[finTask].res)
             ELSE FinishExit("ConnectionError", << >>)
  /\ UNCHANGED <<connVars, fileVars, recv_task, pcStart, nstart, startOut,
                 finTask, ncalls, pcPush, pushOut>>

\* the caller is cancelled at one of the awaits of finish_streaming, at the
\* gather until the caller has resumed from it; cancelling the gather cancels
\* self.recv_task if it is still running
FinishCancel ==
  /\ pcFinish \in {"send", "eof", "await", "closing"}
  /\ FinishExit("Cancelled", << >>)
  /\ IF pcFinish = "await"
       THEN recv' = [recv EXCEPT ![finTask] = [@ EXCEPT !.st = CancelTask(@)]]
       ELSE UNCHANGED recv
  /\ UNCHANGED <<conn, out, sendOnClosed, fileVars, recv_task, pcStart, nstart,
                 startOut, finTask, ncalls, pcPush, pushOut>>

PushNext ==
  \/ \E cfgOk \in BOOLEAN : StartCall(cfgOk)
  \/ \E ok \in BOOLEAN : StartConnect(ok)
  \/ StartConfig
  \/ StartTasks
  \/ StartCancel
  \/ StreamAudio
  \/ StreamWrite
  \/ StreamReturn
  \/ StreamCancel
  \/ FinishCall
  \/ FinishWrite
  \/ FinishGather
  \/ FinishResume
  \/ FinishReturn
  \/ FinishCancel
  \/ \E c \in PushConn, r \in Results : RecvDone(c, r)
  \/ \E c \in PushConn : RecvFail(c)
  \/ \E c \in PushConn : PeerClose(c)

\* ------------------------------------------------------------------- Init
Init ==
  /\ conn = [c \in ConnIds |-> "unopened"]
  /\ out = [c \in ConnIds |-> << >>]
  /\ recv = [c \in ConnIds |-> NoTask]
  /\ sendOnClosed = FALSE
  /\ pcFile = "idle"
  /\ wf = [rate |-> 10, nframes |-> 0, pos |-> 0]
  /\ sendSt = "none"
  /\ sendWhy = "none"
  /\ snd = AtRead
  /\ firstEnd = "none"
  /\ fileOut = "none"
  /\ fileRes = << >>
  /\ fileMark = 0
  /\ src = [url |-> FALSE, cb |-> "none", err |-> "none", reqs |-> 0, calls |-> 0,
            temp |-> "none", pend |-> "none"]
  /\ ws = None
  /\ recv_task = None
  /\ pcStart = "idle"
  /\ nstart = 0
  /\ startOut = "none"
  /\ pcFinish = "idle"
  /\ finTask = None
  /\ finOut = [how |-> "none", res |-> << >>, conn |-> None, closed |-> FALSE,
               prior |-> FALSE, prev |-> "none", at |-> "call", mark |-> 0]
  /\ finPrior = FALSE
  /\ ncalls = 0
  /\ pcPush = "idle"
  /\ pushOut = [how |-> "none", sent |-> 0, err |-> FALSE, conn |-> None,
                call |-> [started |-> FALSE, hadWs |-> FALSE, closed |-> FALSE,
                          prior |-> FALSE]]

\* the end-to-end scenario: transcribe_local_file on a readable 16 kHz wave
\* file of 3.2 seconds, with a valid config and no callback
E2ERate   == 16 * 1000
E2EFrames == (E2ERate * 32) \div 10
LocalWav  == [url |-> FALSE, scheme |-> FALSE, download |-> "data", exists |-> TRUE,
              readable |-> TRUE, riff |-> TRUE, wave |-> TRUE, cfgOk |-> TRUE,
              cb |-> "none"]
\* transcribe_local_file on a wave file, or on a file that is not one with
\* an on_error that suspends
LocalSources == {LocalWav, [LocalWav EXCEPT !.riff = FALSE, !.cb = "suspends"]}

\* one handler: every operation of the file / URL transcription and of the
\* push-based session, interleaved without restriction
Next ==
  \/ FileUnused /\ \E s \in Sources, rate \in Rates, n \in 0..MaxFrames :
                     FileCall(s, rate, n)
  \/ FileCallback
  \/ \E ok \in BOOLEAN : FileConnect(ok)
  \/ FileConfig
  \/ FileTasks
  \/ SenderStep
  \/ FileGather
  \/ FileCancel
  \/ \E cfgOk \in BOOLEAN : StartCall(cfgOk)
  \/ \E ok \in BOOLEAN : StartConnect(ok)
  \/ StartConfig
  \/ StartTasks
  \/ StartCancel
  \/ StreamAudio
  \/ StreamWrite
  \/ StreamReturn
  \/ StreamCancel
  \/ FinishCall
  \/ FinishWrite
  \/ FinishGather
  \/ FinishResume
  \/ FinishReturn
  \/ FinishCancel
  \/ \E c \in ConnIds, r \in Results : RecvDone(c, r)
  \/ \E c \in ConnIds : RecvFail(c)
  \/ \E c \in ConnIds : PeerClose(c)

Spec == Init /\ [][Next]_vars
\* The two sides of the handler share no state (C18), so the reachable states
\* of Spec are the product of those of the two specifications below; the
\* properties are verified over these components.
\* the file / URL transcription alone, and the push-based session alone
FileSpec == Init /\ [][FileNext]_vars
\* the same with the event loop resuming the sender task after every
\* "await ws.send" and "await asyncio.sleep(interval)" that completes
FileLiveSpec == Init /\ [][FileNext]_vars /\ WF_vars(SenderStep)
PushSpec == Init /\ [][PushNext]_vars

E2ENext ==
  \/ FileCall(LocalWav, E2ERate, E2EFrames)
  \/ \E ok \in BOOLEAN : FileConnect(ok)
  \/ FileConfig
  \/ FileTasks
  \/ SenderStep
  \/ FileGather
  \/ FileCancel
  \/ \E r \in Results : RecvDone(FileConn, r)
  \/ RecvFail(FileConn)
  \/ PeerClose(FileConn)

E2ESpec == Init /\ [][E2ENext]_vars

\* one transcribe_local_file call running concurrently with
\* start_streaming_session on the same handler
FrameNext ==
  \/ FileUnused /\ \E s \in LocalSources, rate \in Rates, n \in 0..MaxFrames :
                     FileCall(s, rate, n)
  \/ FileCallback
  \/ \E ok \in BOOLEAN : FileConnect(ok)
  \/ FileConfig
  \/ FileTasks
  \/ SenderStep
  \/ FileGather
  \/ FileCancel
  \/ \E r \in Results : RecvDone(FileConn, r)
  \/ RecvFail(FileConn)
  \/ PeerClose(FileConn)
  \/ \E cfgOk \in BOOLEAN : StartCall(cfgOk)
  \/ \E ok \in BOOLEAN : StartConnect(ok)
  \/ StartConfig
  \/ StartTasks
  \/ StartCancel

FrameSpec == Init /\ [][FrameNext]_vars

\* ================================================================ claims
\* audio chunks sent on a Connection by process_file, in order
AudioOf(c) == SelectSeq(out[c], LAMBDA m : m.kind = "audio")
Ceil(n, f) == (n + f - 1) \div f
Min(a, b) == IF a < b THEN a ELSE b

\* C1 (as stated): on every Connection of a negotiated session no audio
\* chunk and no marker is sent after the end-of-stream marker, and the audio
\* chunks of the file are sent in file order.
C1_EofIsLastMessage ==
  /\ \A c \in ConnIds : \A i \in 1..Len(out[c]) : \A j \in 1..Len(out[c]) :
       (out[c][1] = ConfigMsg /\ out[c][i].kind = "eof" /\ i < j)
         => out[c][j].kind = "config"
  /\ \A i \in 1..Len(AudioOf(FileConn)) : \A j \in 1..Len(AudioOf(FileConn)) :
       i < j => AudioOf(FileConn)[i].off < AudioOf(FileConn)[j].off

\* C2 (as stated): once the file / URL transcription has exited, or
\* finish_streaming has returned or failed on a started session, the
\* Connection the session opened is not open any more.
C2_ClosedOnEveryExit ==
  /\ pcFile = "exit" => conn[FileConn] # "open"
  /\ (/\ pcFinish = "idle"
      /\ finOut.how \in {"returned", "ConnectionError"}
      /\ finOut.conn # None) => conn[finOut.conn] # "open"

\* C3: when process_file has returned and the Connection is still open, what
\* went out after the config is exactly ceil(N/F) audio chunks, the i-th
\* holding frames (i-1)F+1 .. min(iF, N), followed by one end-of-stream marker.
C3_ChunksThenOneEof ==
  (sendSt = "done" /\ conn[FileConn] = "open") =>
    LET F == BufferSize(wf.rate)
        N == wf.nframes
    IN  out[FileConn] =
          <<ConfigMsg>>
          \o [i \in 1..Ceil(N, F) |-> AudioMsg((i - 1) * F, Min(F, N - (i - 1) * F))]
          \o <<EofMsg>>

C3_Witness ==
  /\ sendSt = "done"
  /\ conn[FileConn] = "open"
  /\ wf.nframes = 3
  /\ BufferSize(wf.rate) = 2
  /\ Len(AudioOf(FileConn)) = 2

\* C4 (as stated): once the file / URL transcription has exited with a sender
\* or receiver task that raised, whichever ended first, the call raised
\* StreamingError; a returned list means both tasks returned and the list is
\* the receiver's.
C4_TaskFailureSurfaces ==
  /\ (pcFile = "exit" /\ (sendSt = "failed" \/ recv[FileConn].st = "failed"))
       => fileOut = "StreamingError"
  /\ fileOut = "returned" =>
       /\ sendSt = "done"
       /\ recv[FileConn].st = "done"
       /\ fileRes = recv[FileConn].res

\* C5 (as stated): a cancellation of the caller while it awaits the join
\* reaches the caller as a cancellation (a call that cancelled a task of its
\* own ended cancelled), leaves no gathered task running, and no audio chunk
\* or end-of-stream marker goes out on the Connection afterwards; this for the
\* file / URL transcription and for finish_streaming awaiting the receiver.
C5_CancellationPropagates ==
  /\ (sendSt = "cancelled" \/ recv[FileConn].st = "cancelled")
       => fileOut = "Cancelled"
  /\ fileOut = "Cancelled" =>
       /\ pcFile = "exit"
       /\ sendSt # "running"
       /\ recv[FileConn].st # "running"
       /\ Len(out[FileConn]) = fileMark
  /\ (finOut.how = "Cancelled" /\ finOut.at = "await") =>
       /\ recv[finTask].st # "running"
       /\ DataSent(finOut.conn) = finOut.mark

\* C6 (as stated): after start_streaming_session has failed, the session
\* holds no reference to the Connection that call opened.
C6_FailedStartClearsWs ==
  (pcStart = "idle" /\ startOut = "ConnectionError") => ws # nstart

\* C7 (as stated): finish_streaming with no Connection raises ConnectionError,
\* and a finish_streaming that follows one that returned, on a session that
\* start_streaming_session had started, returns an empty list.
C7_SecondFinishReturnsEmpty ==
  /\ (finOut.how \notin {"none", "pending"} /\ finOut.conn = None /\ ~finOut.prior)
       => finOut.how = "ConnectionError"
  /\ (finOut.how \notin {"none", "pending"} /\ finOut.prior
      /\ finOut.prev = "returned" /\ startOut = "returned")
       => (finOut.how = "returned" /\ finOut.res = << >>)

\* C7 (amended): finish_streaming with no Connection raises ConnectionError,
\* and so does a second finish_streaming in a row: the first call cleared
\* self.ws, so the second finds no active session.
C7_SecondFinishRaises ==
  /\ (finOut.how \notin {"none", "pending"} /\ finOut.conn = None)
       => finOut.how = "ConnectionError"
  /\ (finOut.how \notin {"none", "pending"} /\ finOut.prior)
       => (finOut.how = "ConnectionError" /\ finOut.conn = None)

\* a finish_streaming called after one that returned the receiver's list
C7_Witness ==
  /\ finOut.prior
  /\ finOut.prev = "returned"
  /\ finOut.how = "ConnectionError"
  /\ \E c \in PushConn : conn[c] = "closed" /\ recv[c].st = "done"
                         /\ Len(out[c]) = 2 /\ out[c][2] = EofMsg

\* C8: once finish_streaming has left its try block on a started session,
\* by return, ConnectionError or cancellation, self.ws is None until the next
\* start_streaming_session assigns it.
C8_FinishClearsWs ==
  finPrior => ws = None

\* finish_streaming raised ConnectionError because the receiver raised
C8_Witness ==
  /\ finPrior
  /\ pcFinish = "idle"
  /\ finOut.how = "ConnectionError"
  /\ finOut.at = "await"
  /\ ws = None

\* C9: process_file never calls ws.send while the Connection reports
\* closed; when the sender is about to read and send with the Connection
\* closed, the next step starts no send, puts nothing on the Connection and
\* does not fail the sender; and the sender fails only out of a ws.send it
\* had called while the Connection was open.
C9_SenderSkipsWhenClosed ==
  /\ []~sendOnClosed
  /\ [][(sendSt = "running" /\ snd.at = "read" /\ Closed(FileConn))
          => /\ sendSt' # "failed"
             /\ snd'.at # "send"
             /\ out'[FileConn] = out[FileConn]]_vars
  /\ [][(sendSt' = "failed" /\ sendSt # "failed") => snd.at = "send"]_vars

\* the Connection closed before the first chunk: every send was skipped and
\* the sender returned
C9_Witness ==
  /\ sendSt = "done"
  /\ conn[FileConn] = "closed"
  /\ wf.nframes = 3
  /\ wf.pos = 3
  /\ out[FileConn] = <<ConfigMsg>>

\* C10: a stream_audio call made before any start_streaming_session, after
\* finish_streaming has exited, or on a closed Connection raises
\* StreamingError and sends nothing; so does one whose send raised.
C10_PushWithoutSessionRejected ==
  /\ (pushOut.how # "none"
      /\ (~pushOut.call.started \/ pushOut.call.prior \/ pushOut.call.closed))
       => (pushOut.how = "StreamingError" /\ pushOut.sent = 0)
  /\ pushOut.err => (pushOut.how = "StreamingError" /\ pushOut.sent = 0)

\* stream_audio on a started session whose Connection has closed
C10_Witness ==
  /\ pushOut.how = "StreamingError"
  /\ pushOut.call.started
  /\ pushOut.call.hadWs
  /\ pushOut.call.closed

\* C11 (as stated): a resolved source whose first 4 bytes are not the
\* container signature makes the transcription call fail with
\* InvalidAudioFormatError, and a registered on_error callback has been
\* invoked exactly once when the error reaches the caller.
C11_BadSignatureRaisesFormatError ==
  (pcFile = "exit" /\ src.err = "InvalidAudioFormatError") =>
    /\ fileOut = "InvalidAudioFormatError"
    /\ src.cb # "none" => src.calls = 1

\* C12 (as stated): a URL that starts with neither http:// nor https:// makes
\* the call fail with InvalidURLError, and no request has been made.
C12_BadSchemeRaisesInvalidURL ==
  (pcFile = "exit" /\ src.err = "InvalidURLError") =>
    /\ fileOut = "InvalidURLError"
    /\ src.reqs = 0

\* C13 (as stated): for the 16 kHz file of 3.2 seconds, when the call has
\* returned on a Connection that stayed open, the sender made exactly 2 audio
\* sends of 1600 frames and one end-of-stream marker, and the returned list is
\* the receiver's.
C13_TwoChunksEndToEnd ==
  (fileOut = "returned" /\ conn[FileConn] = "open"
   /\ wf.rate = E2ERate /\ wf.nframes = E2EFrames) =>
    /\ BufferSize(wf.rate) = 1600
    /\ Len(AudioOf(FileConn)) = 2
    /\ out[FileConn] = <<ConfigMsg>> \o AudioOf(FileConn) \o <<EofMsg>>
    /\ recv[FileConn].st = "done"
    /\ fileRes = recv[FileConn].res

\* C13 (amended): 3.2 seconds at 16 kHz are 51200 frames, so the sender makes
\* exactly 32 audio sends of 1600 frames each, in file order, then one
\* end-of-stream marker, and the returned list is the receiver's.
C13_ThirtyTwoChunksEndToEnd ==
  (fileOut = "returned" /\ conn[FileConn] = "open"
   /\ wf.rate = E2ERate /\ wf.nframes = E2EFrames) =>
    /\ Len(AudioOf(FileConn)) = 32
    /\ \A i \in 1..Len(AudioOf(FileConn)) :
         AudioOf(FileConn)[i] = AudioMsg((i - 1) * 1600, 1600)
    /\ out[FileConn] = <<ConfigMsg>> \o AudioOf(FileConn) \o <<EofMsg>>
    /\ recv[FileConn].st = "done"
    /\ fileRes = recv[FileConn].res

\* the scenario ran to its return with a sentence aggregated
C13_Witness ==
  /\ fileOut = "returned"
  /\ conn[FileConn] = "open"
  /\ wf.rate = E2ERate
  /\ wf.pos = E2EFrames
  /\ Len(AudioOf(FileConn)) = 32
  /\ fileRes = <<"s1">>

\* C14 (as stated): once the file / URL transcription has raised because one
\* of its two tasks failed, neither the sender nor the receiver is still
\* running, and nothing more goes out on its Connection.
C14_FailureCancelsOther ==
  (pcFile = "exit" /\ fileOut = "StreamingError") =>
    /\ sendSt # "running"
    /\ recv[FileConn].st # "running"
    /\ Len(out[FileConn]) = fileMark

\* C15 (as stated): on every Connection of a session whose start is under way
\* or has returned, the first message sent is the config, and a receiver is launched on
\* a Connection only after the config went out on it.
C15_ConfigIsFirstMessage ==
  \A c \in ConnIds :
    /\ (out[c] # << >> /\ (c \in PushConn => startOut \in {"pending", "returned"}))
         => out[c][1] = ConfigMsg
    /\ recv[c].st # "none" => (out[c] # << >> /\ out[c][1] = ConfigMsg)

\* C16 (as stated): once the call has exited, by return, error or
\* cancellation, the temporary file of a URL source is closed; and a
\* zero-byte download makes the call fail with EmptyAudioError, the temporary
\* file closed by then.
C16_TempReleasedOnEveryExit ==
  /\ pcFile = "exit" => src.temp # "open"
  /\ (pcFile = "exit" /\ src.err = "EmptyAudioError") =>
       (fileOut = "EmptyAudioError" /\ src.temp = "closed")

\* C17: when source resolution or _prepare_config fails (bad scheme, download
\* failure, zero-byte download, missing file, bad signature, invalid config)
\* the call is suspended in its on_error callback or has raised, never
\* returned; no Connection was opened for it, nothing was sent and no task
\* was created.
C17_FailedResolutionOpensNothing ==
  src.err # "none" =>
    /\ pcFile \in {"callback", "exit"}
    /\ pcFile = "exit" => fileOut \notin {"none", "returned"}
    /\ conn[FileConn] = "unopened"
    /\ out[FileConn] = << >>
    /\ sendSt = "none"
    /\ recv[FileConn].st = "none"

\* the config of a readable wave file was rejected by _prepare_config
C17_Witness ==
  /\ src.err = "ConfigurationError"
  /\ pcFile = "exit"
  /\ fileOut = "StreamingError"
  /\ wf.nframes = 3
  /\ conn[FileConn] = "unopened"

\* a step of the file / URL transcription: of the call, of its sender or of
\* its Connection
FileStepTaken ==
  \/ fileVars' # fileVars
  \/ out'[FileConn] # out[FileConn]
  \/ conn'[FileConn] # conn[FileConn]
  \/ recv'[FileConn] # recv[FileConn]

PushStateKept ==
  /\ ws' = ws
  /\ recv_task' = recv_task
  /\ \A c \in PushConn : conn'[c] = conn[c] /\ out'[c] = out[c] /\ recv'[c] = recv[c]

\* C18: no step of a file / URL transcription changes self.ws, self.recv_task
\* or the Connection and receiver of the push-based session; self.ws and
\* self.recv_task never refer to the Connection the call opened; and the
\* file's audio chunks and end-of-stream marker go out on that Connection only.
C18_FileCallLeavesPushState ==
  /\ [][FileStepTaken => PushStateKept]_vars
  /\ [](/\ ws # FileConn
        /\ recv_task # FileConn
        /\ \A c \in PushConn : \A i \in 1..Len(out[c]) :
             out[c][i].kind \notin {"audio", "eof"})

\* a push-based session is active and a file transcription on the same
\* handler has sent its chunks and returned
C18_Witness ==
  /\ ws \in PushConn
  /\ recv_task = ws
  /\ conn[ws] = "open"
  /\ recv[ws].st = "running"
  /\ out[ws] = <<ConfigMsg>>
  /\ fileOut = "returned"
  /\ Len(AudioOf(FileConn)) = 2
  /\ out[FileConn][Len(out[FileConn])] = EofMsg

\* C19: a finish_streaming call that found self.ws set and reporting closed
\* has returned an empty list straight from the call, without sending an
\* end-of-stream marker on that Connection and without awaiting the receiver,
\* and self.ws no longer refers to that Connection.
C19_FinishOnClosedReturnsEmpty ==
  finOut.closed =>
    /\ finOut.how = "returned"
    /\ finOut.res = << >>
    /\ finOut.at = "call"
    /\ \A i \in 1..Len(out[finOut.conn]) : out[finOut.conn][i].kind # "eof"
    /\ ws # finOut.conn

\* the session was started, its Connection closed, and the receiver had
\* aggregated a sentence when finish_streaming returned the empty list
C19_Witness ==
  /\ finOut.closed
  /\ finOut.how = "returned"
  /\ startOut = "returned"
  /\ recv_task = finOut.conn
  /\ recv[finOut.conn].st = "done"
  /\ recv[finOut.conn].res = <<"s1">>
  /\ ws = None

\* C20: a running sender eventually stops running; a sender that returned has
\* read the file to its end; and one that returned with fewer chunks sent
\* than the file holds (the Connection closed mid-stream) sent no
\* end-of-stream marker.
C20_SenderTerminates ==
  /\ (sendSt = "running") ~> (sendSt # "running")
  /\ [](sendSt = "done" => wf.pos = wf.nframes)
  /\ []((/\ sendSt = "done"
         /\ Len(AudioOf(FileConn)) < Ceil(wf.nframes, BufferSize(wf.rate))) =>
          /\ Closed(FileConn)
          /\ \A i \in 1..Len(out[FileConn]) : out[FileConn][i].kind # "eof")

\* the Connection closed after the first of three chunks: the sender read the
\* other two without sending them and returned without a marker
C20_Witness ==
  /\ sendSt = "done"
  /\ conn[FileConn] = "closed"
  /\ wf.nframes = 3
  /\ BufferSize(wf.rate) = 1
  /\ wf.pos = 3
  /\ out[FileConn] = <<ConfigMsg, AudioMsg(0, 1)>>
====
